---- MODULE Spec2Model ----
(***************************************************************************)
(* Model of the Tetris game of TermPlay (src/src/games/tetris.rs).         *)
(*                                                                         *)
(* The variable game is the TetrisGame struct; an action is one complete   *)
(* call of Game::handle_key or Game::update, including the placement,      *)
(* line clear and spawn it triggers.  pre, last_call, action and trace     *)
(* record the state before the last call, the call, the value it returned  *)
(* and the intermediate boards of its placement.                           *)
(*                                                                         *)
(* The variable loop is App::run_game_loop (src/src/app.rs) driving any    *)
(* Box<dyn Game>: the time since last_tick, the game's tick rate, how the  *)
(* loop ended, and the record of its last iteration.                       *)
(***************************************************************************)
EXTENDS Integers, Sequences, FiniteSets, TLC

BOARD_WIDTH == 10
BOARD_HEIGHT == 20

\* Number of handle_key / update calls explored from an initial state.
MaxSteps == 2

MaxRate == 2
MaxDelay == 1

VARIABLES game, pre, last_call, action, trace, steps, overflow_checks, loop

vars == <<game, pre, last_call, action, trace, steps, overflow_checks, loop>>

(***************************************************************************)
(* Shape table and pieces                                                  *)
(***************************************************************************)
PieceTypes == {"I", "O", "T", "S", "Z", "J", "L"}

\* Option<PieceType>::None of a board cell.
None == "None"

\* Option<Piece>: the empty sequence is None, <<p>> is Some(p).
NoPiece == << >>

Some(p) == <<p>>

get_shape(t) ==
    CASE t = "I" -> << <<FALSE, FALSE, FALSE, FALSE>>,
                       <<TRUE, TRUE, TRUE, TRUE>>,
                       <<FALSE, FALSE, FALSE, FALSE>>,
                       <<FALSE, FALSE, FALSE, FALSE>> >>
      [] t = "O" -> << <<TRUE, TRUE>>, <<TRUE, TRUE>> >>
      [] t = "T" -> << <<FALSE, TRUE, FALSE>>,
                       <<TRUE, TRUE, TRUE>>,
                       <<FALSE, FALSE, FALSE>> >>
      [] t = "S" -> << <<FALSE, TRUE, TRUE>>,
                       <<TRUE, TRUE, FALSE>>,
                       <<FALSE, FALSE, FALSE>> >>
      [] t = "Z" -> << <<TRUE, TRUE, FALSE>>,
                       <<FALSE, TRUE, TRUE>>,
                       <<FALSE, FALSE, FALSE>> >>
      [] t = "J" -> << <<TRUE, FALSE, FALSE>>,
                       <<TRUE, TRUE, TRUE>>,
                       <<FALSE, FALSE, FALSE>> >>
      [] t = "L" -> << <<FALSE, FALSE, TRUE>>,
                       <<TRUE, TRUE, TRUE>>,
                       <<FALSE, FALSE, FALSE>> >>

\* Faulty variant: the piece starts one row above the board.
NewPiece_above(t) == [piece_type |-> t, position |-> [x |-> 4, y |-> -1], rotation |-> 0]

\* Piece::new: anchor (4, 0), rotation 0.
NewPiece(t) == [piece_type |-> t, position |-> [x |-> 4, y |-> 0], rotation |-> 0]

\* Faulty variant: the matrix is transposed (rotated[j][i] = shape[i][j]).
rotate_shape_transposed(shape) ==
    LET rows == Len(shape)
        cols == Len(shape[1])
    IN  [j \in 1..cols |-> [k \in 1..rows |-> shape[k][j]]]

\* rotated[j][rows - 1 - i] = shape[i][j]  (sequences here are 1-based).
rotate_shape(shape) ==
    LET rows == Len(shape)
        cols == Len(shape[1])
    IN  [j \in 1..cols |-> [k \in 1..rows |-> shape[rows + 1 - k][j]]]

RECURSIVE rotate_times(_, _)
rotate_times(shape, n) ==
    IF n = 0 THEN shape ELSE rotate_times(rotate_shape(shape), n - 1)

get_rotated_shape(p) == rotate_times(get_shape(p.piece_type), p.rotation)

get_blocks(p) ==
    LET shape == get_rotated_shape(p)
    IN  { [x |-> p.position.x + (j - 1), y |-> p.position.y + (i - 1)] :
            <<i, j>> \in { c \in (1..Len(shape)) \X (1..Len(shape)) : shape[c[1]][c[2]] } }

moved(p, dx, dy) ==
    [p EXCEPT !.position = [x |-> p.position.x + dx, y |-> p.position.y + dy]]

\* Faulty variant: the rotation index is not reduced modulo 4.
rotated_unreduced(p) == [p EXCEPT !.rotation = p.rotation + 1]

rotated(p) == [p EXCEPT !.rotation = (p.rotation + 1) % 4]

(***************************************************************************)
(* Board                                                                   *)
(***************************************************************************)
Rows == 0..(BOARD_HEIGHT - 1)
Cols == 0..(BOARD_WIDTH - 1)

EmptyRow == [x \in Cols |-> None]

EmptyBoard == [y \in Rows |-> EmptyRow]

row_full(row) == \A x \in Cols : row[x] # None

\* Faulty variant: a cell above the board (y < 0) makes the piece invalid.
is_valid_position_no_exemption(board, piece) ==
    \A block \in get_blocks(piece) :
        ~ ( \/ block.x < 0
            \/ block.x >= BOARD_WIDTH
            \/ block.y >= BOARD_HEIGHT
            \/ block.y < 0
            \/ (block.y >= 0 /\ board[block.y][block.x] # None) )

is_valid_position(board, piece) ==
    \A block \in get_blocks(piece) :
        ~ ( \/ block.x < 0
            \/ block.x >= BOARD_WIDTH
            \/ block.y >= BOARD_HEIGHT
            \/ (block.y >= 0 /\ board[block.y][block.x] # None) )

(***************************************************************************)
(* TetrisGame                                                              *)
(***************************************************************************)
\* AudioManager::default(): both flags come from the configuration file and
\* from whether an audio device exists.
AudioEnvs == [enabled : BOOLEAN, music_enabled : BOOLEAN]

\* Faulty variant: the new piece becomes the current piece before it is validated.
spawn_piece_unchecked(g) ==
    LET new_piece == NewPiece(g.next_piece)
    IN  { LET g1 == [g EXCEPT !.next_piece = r, !.current_piece = Some(new_piece)]
          IN  IF is_valid_position(g1.board, new_piece)
              THEN g1
              ELSE [g1 EXCEPT !.game_over = TRUE] : r \in PieceTypes }

\* Faulty variant: the piece spawned is of a type drawn at random, not of the
\* type next_piece held.
spawn_piece_random_current(g) ==
    { LET g1 == [g EXCEPT !.next_piece = r]
          new_piece == NewPiece(t)
      IN  IF is_valid_position(g1.board, new_piece)
          THEN [g1 EXCEPT !.current_piece = Some(new_piece)]
          ELSE [g1 EXCEPT !.game_over = TRUE] : r \in PieceTypes, t \in PieceTypes }

\* TetrisGame::spawn_piece.  PieceType::random() returns any of the seven
\* types: the operator is the set of states the call can leave.
spawn_piece(g) ==
    LET new_piece == NewPiece(g.next_piece)
    IN  { LET g1 == [g EXCEPT !.next_piece = r]
          IN  IF is_valid_position(g1.board, new_piece)
              THEN [g1 EXCEPT !.current_piece = Some(new_piece)]
              ELSE [g1 EXCEPT !.game_over = TRUE] : r \in PieceTypes }

\* Faulty variant: the new game starts at level 0.
new_level_zero(env) ==
    UNION { spawn_piece([board |-> EmptyBoard,
                         current_piece |-> NoPiece,
                         next_piece |-> r,
                         score |-> 0,
                         lines_cleared |-> 0,
                         level |-> 0,
                         game_over |-> FALSE,
                         drop_timer |-> 0,
                         audio |-> env,
                         music_started |-> FALSE,
                         tetris_celebration |-> 0]) : r \in PieceTypes }

\* TetrisGame::new, as the set of games it can return; env is the pair of
\* flags AudioManager::default() produces.
new(env) ==
    UNION { spawn_piece([board |-> EmptyBoard,
                         current_piece |-> NoPiece,
                         next_piece |-> r,
                         score |-> 0,
                         lines_cleared |-> 0,
                         level |-> 1,
                         game_over |-> FALSE,
                         drop_timer |-> 0,
                         audio |-> env,
                         music_started |-> FALSE,
                         tetris_celebration |-> 0]) : r \in PieceTypes }

\* Faulty variant: the cells are marked with the type of the next piece.
write_piece_next_marker(g) ==
    LET blocks == IF g.current_piece = NoPiece THEN {}
                  ELSE { b \in get_blocks(g.current_piece[1]) : b.y >= 0 }
        t == g.next_piece
    IN  [g EXCEPT !.board = [y \in Rows |-> [x \in Cols |->
                                IF [x |-> x, y |-> y] \in blocks THEN t ELSE g.board[y][x]]],
                  !.current_piece = NoPiece]

\* Faulty variant: the piece written stays the current piece.
write_piece_keeps_current(g) ==
    LET blocks == IF g.current_piece = NoPiece THEN {}
                  ELSE { b \in get_blocks(g.current_piece[1]) : b.y >= 0 }
        t == g.current_piece[1].piece_type
    IN  [g EXCEPT !.board = [y \in Rows |-> [x \in Cols |->
                                IF [x |-> x, y |-> y] \in blocks THEN t ELSE g.board[y][x]]]]

\* First part of place_piece: the cells of the current piece are written.
write_piece(g) ==
    LET blocks == IF g.current_piece = NoPiece THEN {}
                  ELSE { b \in get_blocks(g.current_piece[1]) : b.y >= 0 }
        t == g.current_piece[1].piece_type
    IN  [g EXCEPT !.board = [y \in Rows |-> [x \in Cols |->
                                IF [x |-> x, y |-> y] \in blocks THEN t ELSE g.board[y][x]]],
                  !.current_piece = NoPiece]

\* The full rows, in ascending order of y (the Vec lines_to_clear).
RECURSIVE lines_from(_, _)
lines_from(board, y) ==
    IF y >= BOARD_HEIGHT THEN << >>
    ELSE IF row_full(board[y]) THEN <<y>> \o lines_from(board, y + 1)
    ELSE lines_from(board, y + 1)

lines_to_clear(board) == lines_from(board, 0)

\* Faulty variant: the inner loop stops one row short (1..line instead of 1..=line).
shift_down_exclusive(board, line) ==
    [y \in Rows |-> IF y = 0 THEN EmptyRow
                    ELSE IF y < line THEN board[y - 1]
                    ELSE board[y]]

\* Inner loop of clear_lines for one line: rows 1..=line take the row above
\* them, row 0 becomes empty.
shift_down(board, line) ==
    [y \in Rows |-> IF y = 0 THEN EmptyRow
                    ELSE IF y <= line THEN board[y - 1]
                    ELSE board[y]]

\* Outer loop of clear_lines: lines.iter().rev(), i is the 1-based position
\* in lines of the line treated next.
RECURSIVE remove_lines(_, _, _)
remove_lines(board, lines, i) ==
    IF i = 0 THEN board
    ELSE remove_lines(shift_down(board, lines[i]), lines, i - 1)

line_score(lines_count) ==
    CASE lines_count = 1 -> 40
      [] lines_count = 2 -> 100
      [] lines_count = 3 -> 300
      [] lines_count = 4 -> 1200
      [] OTHER -> 0

\* Faulty variant: the level is not offset by one.
level_for_zero_based(lines_cleared) == lines_cleared \div 10

level_for(lines_cleared) == (lines_cleared \div 10) + 1

\* The score a line clear adds; level is self.level as already recomputed.
clear_score(lines_count, level) == line_score(lines_count) * level

\* Faulty variant: lines_cleared is set to the count instead of growing by it.
clear_lines_count_only(g) ==
    LET lines == lines_to_clear(g.board)
        lines_count == Len(lines)
        g1 == IF lines_count = 4
              THEN [g EXCEPT !.tetris_celebration = 120,
                             !.music_started = IF g.audio.music_enabled THEN FALSE ELSE @]
              ELSE g
        g2 == [g1 EXCEPT !.board = remove_lines(g1.board, lines, lines_count)]
    IN  IF lines_count > 0
        THEN LET total == lines_count
                 lvl == level_for(total)
             IN  [g2 EXCEPT !.lines_cleared = total,
                            !.level = lvl,
                            !.score = @ + clear_score(lines_count, lvl)]
        ELSE g2

clear_lines(g) ==
    LET lines == lines_to_clear(g.board)
        lines_count == Len(lines)
        g1 == IF lines_count = 4
              THEN [g EXCEPT !.tetris_celebration = 120,
                             !.music_started = IF g.audio.music_enabled THEN FALSE ELSE @]
              ELSE g
        g2 == [g1 EXCEPT !.board = remove_lines(g1.board, lines, lines_count)]
    IN  IF lines_count > 0
        THEN LET total == g2.lines_cleared + lines_count
                 lvl == level_for(total)
             IN  [g2 EXCEPT !.lines_cleared = total,
                            !.level = lvl,
                            !.score = @ + clear_score(lines_count, lvl)]
        ELSE g2

\* No placement in the call: no boards to record.
NoTrace ==
    [placed |-> FALSE, written |-> << >>, lines |-> << >>, cleared |-> << >>,
     dropped |-> 0]

\* Faulty variant: the next piece is spawned before the lines are cleared.
place_piece_spawn_first(g) ==
    LET w == write_piece(g)
        t == [placed |-> TRUE, written |-> w.board,
              lines |-> lines_to_clear(w.board),
              cleared |-> clear_lines(w).board,
              dropped |-> 0]
    IN  { [game |-> clear_lines(s), trace |-> t] : s \in spawn_piece(w) }

\* TetrisGame::place_piece: the states it can leave, each with the boards
\* between its three steps.
place_piece(g) ==
    LET w == write_piece(g)
        c == clear_lines(w)
        t == [placed |-> TRUE, written |-> w.board,
              lines |-> lines_to_clear(w.board), cleared |-> c.board,
              dropped |-> 0]
    IN  { [game |-> s, trace |-> t] : s \in spawn_piece(c) }

move_piece(g, dx, dy) ==
    IF g.current_piece # NoPiece
       /\ is_valid_position(g.board, moved(g.current_piece[1], dx, dy))
    THEN [game |-> [g EXCEPT !.current_piece = Some(moved(g.current_piece[1], dx, dy))],
          ok |-> TRUE]
    ELSE [game |-> g, ok |-> FALSE]

\* Faulty variant: the rotation is applied without the validity check.
rotate_piece_unchecked(g) ==
    IF g.current_piece # NoPiece
    THEN [game |-> [g EXCEPT !.current_piece = Some(rotated(g.current_piece[1]))],
          ok |-> TRUE]
    ELSE [game |-> g, ok |-> FALSE]

rotate_piece(g) ==
    IF g.current_piece # NoPiece
       /\ is_valid_position(g.board, rotated(g.current_piece[1]))
    THEN [game |-> [g EXCEPT !.current_piece = Some(rotated(g.current_piece[1]))],
          ok |-> TRUE]
    ELSE [game |-> g, ok |-> FALSE]

\* Faulty variant: the gravity step scores like the soft-drop key.
drop_piece_scoring(g) ==
    LET m == move_piece(g, 0, 1)
    IN  IF m.ok THEN {[game |-> [m.game EXCEPT !.score = @ + 1], trace |-> NoTrace]}
        ELSE place_piece(g)

drop_piece(g) ==
    LET m == move_piece(g, 0, 1)
    IN  IF m.ok THEN {[game |-> m.game, trace |-> NoTrace]}
        ELSE place_piece(g)

\* while self.move_piece(0, 1) { dropped_lines += 1; }
RECURSIVE hard_drop_loop(_, _)
hard_drop_loop(g, dropped_lines) ==
    LET m == move_piece(g, 0, 1)
    IN  IF m.ok THEN hard_drop_loop(m.game, dropped_lines + 1)
        ELSE [game |-> g, dropped_lines |-> dropped_lines]

\* Faulty variant: the drop bonus is one point per row.
hard_drop_single_bonus(g) ==
    LET d == hard_drop_loop(g, 0)
        g1 == IF d.dropped_lines > 0
              THEN [d.game EXCEPT !.score = @ + d.dropped_lines]
              ELSE d.game
    IN  { [game |-> p.game, trace |-> [p.trace EXCEPT !.dropped = d.dropped_lines]] :
            p \in place_piece(g1) }

hard_drop(g) ==
    LET d == hard_drop_loop(g, 0)
        g1 == IF d.dropped_lines > 0
              THEN [d.game EXCEPT !.score = @ + d.dropped_lines * 2]
              ELSE d.game
    IN  { [game |-> p.game, trace |-> [p.trace EXCEPT !.dropped = d.dropped_lines]] :
            p \in place_piece(g1) }

\* u32 values: a value v below 2^31 is the integer v, a value v of 2^31 or
\* more is the integer v - 2^32 (its two's-complement reading), so that every
\* u32 is an integer of the checker.  lt_u32 is the order of u32.
lt_u32(a, b) == IF (a < 0) = (b < 0) THEN a < b ELSE b < 0

max_u32(a, b) == IF lt_u32(a, b) THEN b ELSE a

\* a - b on u32 as a build without overflow checks computes it (wrapping).
sub_u32(a, b) == a - b

get_drop_interval(level) == max_u32(1, sub_u32(21, level))

\* With overflow checks (debug profile) 21 - self.level panics instead.
drop_interval_panics(level, checks) == checks /\ level > 21

\* Faulty variant: starting the music also restarts the gravity count.
start_music_if_needed_delaying(g) ==
    IF ~g.music_started /\ g.audio.music_enabled
    THEN [g EXCEPT !.music_started = TRUE, !.drop_timer = 0]
    ELSE g

start_music_if_needed(g) ==
    IF ~g.music_started /\ g.audio.music_enabled
    THEN [g EXCEPT !.music_started = TRUE]
    ELSE g

(***************************************************************************)
(* Game::handle_key and Game::update                                       *)
(***************************************************************************)
\* KeyCode values the handler distinguishes; "other" is any other key.
Keys == {"Left", "Right", "Down", "Up", "Space", "m", "n", "q", "r", "other"}

\* The outcomes of a call: the game it leaves, the GameAction it returns
\* ("Panic" when it does not return) and the boards of its placement.
Result(g, a) == {[game |-> g, action |-> a, trace |-> NoTrace]}

Placed(ps, a) == { [game |-> p.game, action |-> a, trace |-> p.trace] : p \in ps }

toggle_music_key(g) ==
    LET a == [g.audio EXCEPT !.music_enabled = ~@]
    IN  [g EXCEPT !.audio = a, !.music_started = a.music_enabled]

\* Faulty variant: the audio keys still work on a finished game.
handle_key_over_audio(g, key) ==
    CASE key = "r" -> UNION { Placed({[game |-> n, trace |-> NoTrace] : n \in new(env)},
                                     "Continue") : env \in AudioEnvs }
      [] key = "q" -> Result(g, "Quit")
      [] key = "m" -> Result(toggle_music_key(g), "Continue")
      [] key = "n" -> Result([g EXCEPT !.audio.enabled = ~@], "Continue")
      [] OTHER -> Result(g, "Continue")

\* The match of handle_key taken when self.game_over.
handle_key_over(g, key) ==
    CASE key = "r" -> UNION { Placed({[game |-> n, trace |-> NoTrace] : n \in new(env)},
                                     "Continue") : env \in AudioEnvs }
      [] key = "q" -> Result(g, "Quit")
      [] OTHER -> Result(g, "Continue")

\* Faulty variant: a soft drop that cannot move a piece still at row 0 ends
\* the game itself instead of placing the piece.
handle_key_running_top_out(g, key) ==
    CASE key = "Left" -> Result(move_piece(g, -1, 0).game, "Continue")
      [] key = "Right" -> Result(move_piece(g, 1, 0).game, "Continue")
      [] key = "Down" ->
           LET m == move_piece(g, 0, 1)
           IN  IF m.ok
               THEN Result([m.game EXCEPT !.score = @ + 1], "Continue")
               ELSE IF g.current_piece[1].position.y = 0
               THEN Result([g EXCEPT !.game_over = TRUE], "Continue")
               ELSE Placed(place_piece(g), "Continue")
      [] key = "Up" -> Result(rotate_piece(g).game, "Continue")
      [] key = "Space" -> Placed(hard_drop(g), "Continue")
      [] key = "m" -> Result(toggle_music_key(g), "Continue")
      [] key = "n" -> Result([g EXCEPT !.audio.enabled = ~@], "Continue")
      [] key = "q" -> Result(g, "Quit")
      [] OTHER -> Result(g, "Continue")

\* Faulty variant: a soft drop that moves the piece scores nothing.
handle_key_running_free_drop(g, key) ==
    CASE key = "Left" -> Result(move_piece(g, -1, 0).game, "Continue")
      [] key = "Right" -> Result(move_piece(g, 1, 0).game, "Continue")
      [] key = "Down" ->
           LET m == move_piece(g, 0, 1)
           IN  IF m.ok
               THEN Result(m.game, "Continue")
               ELSE Placed(place_piece(g), "Continue")
      [] key = "Up" -> Result(rotate_piece(g).game, "Continue")
      [] key = "Space" -> Placed(hard_drop(g), "Continue")
      [] key = "m" -> Result(toggle_music_key(g), "Continue")
      [] key = "n" -> Result([g EXCEPT !.audio.enabled = ~@], "Continue")
      [] key = "q" -> Result(g, "Quit")
      [] OTHER -> Result(g, "Continue")

\* The match of handle_key taken while the game runs.
handle_key_running(g, key) ==
    CASE key = "Left" -> Result(move_piece(g, -1, 0).game, "Continue")
      [] key = "Right" -> Result(move_piece(g, 1, 0).game, "Continue")
      [] key = "Down" ->
           LET m == move_piece(g, 0, 1)
           IN  IF m.ok
               THEN Result([m.game EXCEPT !.score = @ + 1], "Continue")
               ELSE Placed(place_piece(g), "Continue")
      [] key = "Up" -> Result(rotate_piece(g).game, "Continue")
      [] key = "Space" -> Placed(hard_drop(g), "Continue")
      [] key = "m" -> Result(toggle_music_key(g), "Continue")
      [] key = "n" -> Result([g EXCEPT !.audio.enabled = ~@], "Continue")
      [] key = "q" -> Result(g, "Quit")
      [] OTHER -> Result(g, "Continue")

\* Faulty variant: the game_over test of handle_key is missing.
handle_key_unguarded(g, key) == handle_key_running(g, key)

\* Game::handle_key: the set of outcomes of the call.
handle_key(g, key) ==
    IF g.game_over
    THEN handle_key_over(g, key)
    ELSE handle_key_running(g, key)

\* Faulty variant: update reports a finished game as GameAction::GameOver.
UpdateAction_game_over(game_over) == IF game_over THEN "GameOver" ELSE "Continue"

\* The value update returns when it returns.
UpdateAction(game_over) == "Continue"

\* Faulty variant: update never advances drop_timer.
update_no_tick(g, checks) ==
    IF ~g.game_over
    THEN LET g1 == [g EXCEPT !.tetris_celebration = IF @ > 0 THEN @ - 1 ELSE @]
             g3 == start_music_if_needed(g1)
         IN  IF drop_interval_panics(g3.level, checks)
             THEN Result(g3, "Panic")
             ELSE IF ~lt_u32(g3.drop_timer, get_drop_interval(g3.level))
             THEN { [game |-> [d.game EXCEPT !.drop_timer = 0],
                     action |-> UpdateAction(FALSE),
                     trace |-> d.trace] : d \in drop_piece(g3) }
             ELSE Result(g3, UpdateAction(FALSE))
    ELSE Result(g, UpdateAction(TRUE))

\* Game::update: the set of outcomes of the call; checks says whether the
\* build panics on integer overflow.
update(g, checks) ==
    IF ~g.game_over
    THEN LET g1 == [g EXCEPT !.tetris_celebration = IF @ > 0 THEN @ - 1 ELSE @]
             g2 == start_music_if_needed(g1)
             g3 == [g2 EXCEPT !.drop_timer = @ + 1]
         IN  IF drop_interval_panics(g3.level, checks)
             THEN Result(g3, "Panic")
             ELSE IF ~lt_u32(g3.drop_timer, get_drop_interval(g3.level))
             THEN { [game |-> [d.game EXCEPT !.drop_timer = 0],
                     action |-> UpdateAction(FALSE),
                     trace |-> d.trace] : d \in drop_piece(g3) }
             ELSE Result(g3, UpdateAction(FALSE))
    ELSE Result(g, UpdateAction(TRUE))

(***************************************************************************)
(* App::run_game_loop                                                      *)
(*                                                                         *)
(* One iteration is draw, tick_rate, poll, read, handle_key, the tick      *)
(* check and update.  The game behind Box<dyn Game> is any game: each of   *)
(* its &mut self calls may change what tick_rate() returns, and            *)
(* handle_key and update return any GameAction.  Time is counted in units since last_tick; drawing and         *)
(* handle_key take up to MaxDelay units, poll waits up to its timeout.     *)
(***************************************************************************)
GameActions == {"Continue", "Quit", "GameOver"}

Rates == 1..MaxRate

Delays == 0..MaxDelay

IoResults == {"Ok", "Err"}

NoEvent == [type |-> "none", kind |-> "none"]

\* crossterm events: key events of the three kinds, and one other event.
Events ==
    { [type |-> "Key", kind |-> k] : k \in {"Press", "Release", "Repeat"} }
        \cup { [type |-> "Resize", kind |-> "none"] }

\* The record of an iteration before anything has happened in it.
NoLog ==
    [calls |-> << >>, rate_drawn |-> 0, prev_tick_rate |-> 0,
     tick_rate |-> 0, elapsed_at_timeout |-> -1, timeout |-> -1,
     failed |-> "none", event |-> NoEvent, hk |-> "none",
     elapsed_at_check |-> -1, up |-> "none", reset |-> FALSE]

\* let mut last_tick = Instant::now();
LoopStart(rate) ==
    [status |-> "running", error |-> "none", elapsed |-> 0, rate |-> rate,
     it |-> NoLog]

begin(l) ==
    [l EXCEPT !.it = [NoLog EXCEPT !.prev_tick_rate = l.it.tick_rate]]

call(f, name) == [f EXCEPT !.it.calls = Append(@, name)]

pass(f, d) == [f EXCEPT !.elapsed = @ + d]

\* Faulty variant: an error of draw, poll or read is dropped.
question_mark_ignored(res) == FALSE

\* The ? operator: an Err is returned from run_game_loop at once.
question_mark(res) == res = "Err"

\* An I/O call `what` with result res: the loop returns the error or goes on.
try(f, what, res) ==
    LET f1 == IF res = "Err" THEN [f EXCEPT !.it.failed = what] ELSE f
    IN  IF question_mark(res)
        THEN [f1 EXCEPT !.status = "Err", !.error = what]
        ELSE f1

\* Faulty variant: the timeout is the plain difference.
timeout_for_unclamped(tick_rate, elapsed) == tick_rate - elapsed

\* tick_rate.checked_sub(last_tick.elapsed()).unwrap_or_else(|| 0)
timeout_for(tick_rate, elapsed) ==
    IF tick_rate >= elapsed THEN tick_rate - elapsed ELSE 0

\* Faulty variant: every key event is handed to the game.
reaches_handle_key_any_kind(event) == event.type = "Key"

\* if let Event::Key(key) = ... { if key.kind == KeyEventKind::Press
reaches_handle_key(event) == event.type = "Key" /\ event.kind = "Press"

\* Faulty variant: GameOver does not leave the loop.
breaks_quit_only(a) == a = "Quit"

\* GameAction::Quit => break, GameAction::GameOver => break
breaks(a) == a \in {"Quit", "GameOver"}

\* Faulty variant: the tick needs more than tick_rate to have elapsed.
tick_due_strict(elapsed, tick_rate) == elapsed > tick_rate

\* if last_tick.elapsed() >= tick_rate
tick_due(elapsed, tick_rate) == elapsed >= tick_rate

\* The frames in S, each continued by stage Op; a frame of a loop that has
\* returned is left as it is.
Then(S, Op(_)) ==
    UNION { IF f.status = "running" THEN Op(f) ELSE {f} : f \in S }

\* terminal.draw(|f| game.draw(f))?: Game::draw takes &mut self, so the game
\* may have changed its tick rate when it returns.
draw_stage(f) ==
    { try([pass(call(f, "draw"), d) EXCEPT !.rate = r, !.it.rate_drawn = r],
          "draw", res) :
        d \in Delays, r \in Rates, res \in IoResults }

\* let tick_rate = game.tick_rate(); let timeout = ...
timeout_stage(f) ==
    { [call(f, "tick_rate") EXCEPT
          !.it.tick_rate = f.rate,
          !.it.elapsed_at_timeout = f.elapsed,
          !.it.timeout = timeout_for(f.rate, f.elapsed)] }

\* match game.handle_key(key): the game returns any action, after any delay,
\* and may have changed its tick rate.
key_stage(f) ==
    IF reaches_handle_key(f.it.event)
    THEN { [pass(call(f, "handle_key"), d) EXCEPT
               !.it.hk = a,
               !.rate = r,
               !.status = IF breaks(a) THEN "Ok" ELSE @] :
             a \in GameActions, r \in Rates, d \in Delays }
    ELSE {f}

\* event::read()?
read_stage(f) ==
    { try(call(f, "read"), "read", "Err") }
        \cup { [call(f, "read") EXCEPT !.it.event = e] : e \in Events }

\* crossterm::event::poll(timeout)?: an error, no event within the timeout,
\* or an event after a wait of at most the timeout.
poll_stage(f) ==
    LET p == call(f, "poll")
        t == IF f.it.timeout >= 0 THEN f.it.timeout ELSE 0
    IN  { try(p, "poll", "Err") }
            \cup { pass(p, t) }
            \cup Then({ pass(p, w) : w \in 0..t },
                      LAMBDA q : Then(read_stage(q), key_stage))

\* Faulty variant: an iteration that handled a key goes back to the top of
\* the loop without the tick check.
tick_stage_skipped_after_key(f) ==
    LET c == [f EXCEPT !.it.elapsed_at_check = f.elapsed]
    IN  IF f.it.hk # "none"
        THEN {f}
        ELSE IF tick_due(c.elapsed, c.it.tick_rate)
        THEN { IF breaks(a)
               THEN [call(c, "update") EXCEPT !.it.up = a, !.rate = r,
                                               !.status = "Ok"]
               ELSE [call(c, "update") EXCEPT !.it.up = a, !.rate = r,
                                               !.elapsed = 0,
                                               !.it.reset = TRUE] :
                 a \in GameActions, r \in Rates }
        ELSE {c}

\* The tick check, game.update() and last_tick = Instant::now().
tick_stage(f) ==
    LET c == [f EXCEPT !.it.elapsed_at_check = f.elapsed]
    IN  IF tick_due(c.elapsed, c.it.tick_rate)
        THEN { IF breaks(a)
               THEN [call(c, "update") EXCEPT !.it.up = a, !.rate = r,
                                               !.status = "Ok"]
               ELSE [call(c, "update") EXCEPT !.it.up = a, !.rate = r,
                                               !.elapsed = 0,
                                               !.it.reset = TRUE] :
                 a \in GameActions, r \in Rates }
        ELSE {c}

\* Faulty variant: the tick is served before the input.
iteration_tick_first(l) ==
    Then(Then(Then(Then({begin(l)}, draw_stage), timeout_stage), tick_stage),
         poll_stage)

\* One pass through the body of the loop.
iteration(l) ==
    Then(Then(Then(Then({begin(l)}, draw_stage), timeout_stage), poll_stage),
         tick_stage)

(***************************************************************************)
(* Initial states                                                          *)
(*                                                                         *)
(* A session starts with TetrisGame::new.  The model also starts from      *)
(* positions of later play: boards that a session reaches by placing the   *)
(* pieces named below under gravity alone (pieces steered with Left, Right *)
(* and Up, every placement made by update), with the piece just spawned.   *)
(***************************************************************************)
\* board with the cells xs x ys set to t
fill(board, xs, ys, t) ==
    [y \in Rows |-> [x \in Cols |-> IF x \in xs /\ y \in ys THEN t ELSE board[y][x]]]

\* I(0-3), I(4-7), O(8-9) cleared row 19 once; then I(0-3): row 19 lacks 4..7.
BoardSingle == fill(fill(EmptyBoard, 0..3, {19}, "I"), 8..9, {19}, "O")

\* I(0-3), I(4-7) on row 19, I(0-3) on row 18, an upright T in columns 8-9:
\* row 18 lacks 4..7, row 19 lacks column 9, row 17 holds the top of the T.
BoardMid ==
    fill(fill(fill(fill(EmptyBoard, 0..7, {19}, "I"), 0..3, {18}, "I"),
              {8}, 17..19, "T"), {9}, {18}, "T")

\* Four O pieces in columns 0-3 and 6-9: rows 18 and 19 lack columns 4, 5.
BoardDouble == fill(fill(EmptyBoard, 0..3, 18..19, "O"), 6..9, 18..19, "O")

\* Rows 16..19 lack column 6: four I in columns 0-3, two O in columns 4-5,
\* three upright I in columns 7, 8, 9.
BoardTetris ==
    fill(fill(fill(EmptyBoard, 0..3, 16..19, "I"), 4..5, 16..19, "O"), 7..9, 16..19, "I")

\* Nine O pieces stacked in columns 4-5: rows 2..19.
BoardOver == fill(EmptyBoard, 4..5, 2..19, "O")

\* Five O pieces filled rows 18 and 19; the double clear left old row 18 as
\* row 19 (it removes index 18 after the rows have moved).  Then nine upright
\* I in columns 0-5 and 7-9: rows 15..18 lack column 6, row 19 is full.
BoardResidual ==
    fill(fill(fill(EmptyBoard, Cols, {19}, "O"), 0..5, 15..18, "I"), 7..9, 15..18, "I")

\* Vertical I in columns 0..8 of rows 4..19, four O side by side on rows 2
\* and 3, a J turned once at the right wall (cells (8,1), (9,1), (8,2),
\* (8,3)) and an I moved to columns 0..3 of row 1: row 1 lacks columns 4..7,
\* where the next I spawns and cannot fall.
BoardBrim ==
    fill(fill(fill(fill(fill(EmptyBoard, 0..8, 4..19, "I"), 0..7, 2..3, "O"),
                   {8}, 1..3, "J"), {9}, {1}, "J"), 0..3, {1}, "I")

\* Five upright I fill column 6 from row 19 to row 0, three more stand in
\* columns 7..9 and one lies in columns 0..3 of row 19: row 19 lacks columns
\* 4 and 5, below the spawn cells of the O.
BoardTall ==
    fill(fill(fill(EmptyBoard, {6}, Rows, "I"), 7..9, 16..19, "I"), 0..3, {19}, "I")

\* Score of n single-line clears made under gravity alone: the sum over
\* i in 1..n of clear_score(1, level_for(i)), in closed form.
GravityScore(n) ==
    LET q == n \div 10
        r == n % 10
    IN  line_score(1) * (5 * q * (q + 1) + (r + 1) * (q + 1) - 1)

\* Lines cleared before the position; each cycle I, I, O, I, I clears two
\* single lines and empties the board.
StartLines == {1, 9, 209}

\* The piece types tried as next_piece of a position of later play.
StartNext == {"I", "O"}

Position(board, piece, lines, next, timer) ==
    [board |-> board,
     current_piece |-> Some(piece),
     next_piece |-> next,
     score |-> GravityScore(lines),
     lines_cleared |-> lines,
     level |-> (lines \div 10) + 1,
     game_over |-> FALSE,
     drop_timer |-> timer,
     audio |-> [enabled |-> TRUE, music_enabled |-> TRUE],
     music_started |-> TRUE,
     tetris_celebration |-> 0]

\* The upright I, fallen 14 rows into the well of BoardTetris.
PieceInWell == moved(rotated(NewPiece("I")), 0, 14)

Positions ==
    { Position(BoardSingle, NewPiece("I"), l, n, 0) : l \in StartLines, n \in StartNext }
    \cup { Position(b, NewPiece("I"), 0, n, t) :
             b \in {BoardMid}, n \in StartNext, t \in {0, 19} }
    \cup { Position(b, NewPiece("O"), 0, n, t) :
             b \in {BoardDouble, BoardOver}, n \in StartNext, t \in {0, 19} }
    \cup { Position(BoardTetris, PieceInWell, 0, n, 0) : n \in StartNext }
    \cup { [Position(BoardResidual, PieceInWell, 2, n, 0) EXCEPT
                !.score = clear_score(2, 1)] : n \in StartNext }

\* overflow_checks is the build profile; it only matters once 21 - level can
\* overflow, so both profiles are started only from level 21 on.
Init ==
    /\ game \in UNION { new(env) : env \in AudioEnvs } \cup Positions
    /\ pre = game
    /\ last_call = "new"
    /\ action = "Continue"
    /\ trace = NoTrace
    /\ steps = 0
    /\ overflow_checks \in IF game.level >= 21 THEN BOOLEAN ELSE {FALSE}
    /\ loop = LoopStart(1)

(***************************************************************************)
(* Actions                                                                 *)
(***************************************************************************)
\* The caller stops calling the game after Quit, GameOver or a panic.
Running == action = "Continue"

Count == steps' = steps + 1

HandleKey ==
    /\ Running
    /\ steps < MaxSteps
    /\ \E key \in Keys :
         \E r \in handle_key(game, key) :
            /\ game' = r.game
            /\ action' = r.action
            /\ trace' = r.trace
            /\ last_call' = key
    /\ pre' = game
    /\ Count
    /\ UNCHANGED <<overflow_checks, loop>>

Update ==
    /\ Running
    /\ steps < MaxSteps
    /\ \E u \in update(game, overflow_checks) :
          /\ game' = u.game
          /\ action' = u.action
          /\ trace' = u.trace
    /\ last_call' = "update"
    /\ pre' = game
    /\ Count
    /\ UNCHANGED <<overflow_checks, loop>>

Next == HandleKey \/ Update

Spec == Init /\ [][Next]_vars

\* Steering one piece: only the keys that move or turn the current piece,
\* and no call that places it.  The piece visits every anchor and rotation
\* the board allows.
SteerKeys == {"Left", "Right", "Up", "Down"}

SteerInit ==
    /\ Init
    /\ game.next_piece = "I"
    /\ game.audio = [enabled |-> TRUE, music_enabled |-> TRUE]

Steer ==
    /\ Running
    /\ \E key \in SteerKeys :
         \E r \in handle_key(game, key) :
            /\ ~r.trace.placed
            /\ game' = r.game
            /\ action' = r.action
            /\ trace' = r.trace
            /\ last_call' = key
    /\ pre' = game
    /\ UNCHANGED <<steps, overflow_checks, loop>>

SteerSpec == SteerInit /\ [][Steer]_vars

\* Sessions in progress: the calls of Spec, started from the positions of
\* later play only.
SessionInit ==
    /\ Init
    /\ game \in Positions

SessionSpec == SessionInit /\ [][Next]_vars

\* Sessions in progress on the two boards where the audio code has most to
\* do: a line clear and a four-line clear are one hard drop away.
AudioInit ==
    /\ SessionInit
    /\ game.board \in {BoardSingle, BoardTetris}
    /\ game.lines_cleared <= 1
    /\ game.next_piece = "I"

AudioSpec == AudioInit /\ [][Next]_vars

\* Sessions in progress on boards stacked up to the spawn rows, where the
\* placement of the current piece completes a row.
BrimPositions ==
    { Position(BoardBrim, NewPiece("I"), 0, n, t) : n \in StartNext, t \in {0, 19} }
    \cup { Position(BoardTall, NewPiece("O"), 0, n, t) : n \in StartNext, t \in {0, 19} }

BrimInit ==
    /\ game \in BrimPositions
    /\ pre = game
    /\ last_call = "new"
    /\ action = "Continue"
    /\ trace = NoTrace
    /\ steps = 0
    /\ overflow_checks = FALSE
    /\ loop = LoopStart(1)

BrimSpec == BrimInit /\ [][Next]_vars

\* A new game left to gravity: update() is the only call made, and steps
\* counts the calls made while the game runs.  PieceType::random() is followed
\* along the draws that repeat the type of the piece just placed, so the two
\* types drawn in new() alternate: one session for every pair of types.
GravityInit ==
    /\ Init
    /\ game \in new([enabled |-> FALSE, music_enabled |-> FALSE])

Gravity ==
    /\ Running
    /\ \E u \in update(game, overflow_checks) :
          /\ u.trace.placed => u.game.next_piece = game.current_piece[1].piece_type
          /\ game' = u.game
          /\ action' = u.action
          /\ trace' = u.trace
    /\ last_call' = "update"
    /\ pre' = game
    /\ steps' = IF game.game_over THEN steps ELSE steps + 1
    /\ UNCHANGED <<overflow_checks, loop>>

GravitySpec == GravityInit /\ [][Gravity]_vars

\* The scheduler with any game behind it.  The Tetris variables stand still
\* at a new game.
LoopInit ==
    /\ game \in new([enabled |-> FALSE, music_enabled |-> FALSE])
    /\ game.current_piece = Some(NewPiece("I"))
    /\ game.next_piece = "I"
    /\ pre = game
    /\ last_call = "new"
    /\ action = "Continue"
    /\ trace = NoTrace
    /\ steps = 0
    /\ overflow_checks = FALSE
    /\ loop \in { LoopStart(r) : r \in Rates }

Iterate ==
    /\ loop.status = "running"
    /\ loop' \in iteration(loop)
    /\ UNCHANGED <<game, pre, last_call, action, trace, steps, overflow_checks>>

LoopSpec == LoopInit /\ [][Iterate]_vars

(***************************************************************************)
(* Properties                                                              *)
(***************************************************************************)
\* The fields of the simulation (the audio fields left out).
Sim(g) ==
    <<g.board, g.current_piece, g.next_piece, g.score, g.lines_cleared, g.level,
      g.drop_timer, g.game_over>>

MaxInt(a, b) == IF a >= b THEN a ELSE b

\* Rows of board that are not full, in ascending order of y.
RECURSIVE kept_from(_, _)
kept_from(board, y) ==
    IF y >= BOARD_HEIGHT THEN << >>
    ELSE IF row_full(board[y]) THEN kept_from(board, y + 1)
    ELSE <<y>> \o kept_from(board, y + 1)

\* Reference line clear: delete the full rows, pad with empty rows on top.
Reference(board) ==
    LET kept == kept_from(board, 0)
        n == BOARD_HEIGHT - Len(kept)
    IN  [y \in Rows |-> IF y < n THEN EmptyRow ELSE board[kept[y - n + 1]]]

\* C1: after every completed handle_key or update call no row of the board
\* has all 10 cells occupied.
C1_NoFullRow == \A y \in Rows : ~row_full(game.board[y])

\* C2: the board clear_lines leaves is the reference result: the full rows
\* deleted, the other rows in their order at the bottom, empty rows on top.
C2_ClearIsReference == trace.placed => trace.cleared = Reference(trace.written)

\* C3: when exactly one row R1 is full after a placement, clear_lines moves
\* every row above R1 down by one, empties row 0 and leaves the rows below R1
\* unchanged.
C3_SingleLineClear ==
    (trace.placed /\ Len(trace.lines) = 1) =>
        LET R1 == trace.lines[1]
        IN  /\ trace.cleared[0] = EmptyRow
            /\ \A y \in 1..R1 : trace.cleared[y] = trace.written[y - 1]
            /\ \A y \in (R1 + 1)..(BOARD_HEIGHT - 1) : trace.cleared[y] = trace.written[y]
            /\ game.board = trace.cleared

\* A single line cleared with a non-full, non-empty row below it and a
\* non-empty row above it.
C3_Witness ==
    /\ trace.placed
    /\ Len(trace.lines) = 1
    /\ trace.lines[1] < BOARD_HEIGHT - 1
    /\ trace.written[trace.lines[1] + 1] # EmptyRow
    /\ trace.written[trace.lines[1] - 1] # EmptyRow
    /\ game.board[trace.lines[1]] = trace.written[trace.lines[1] - 1]

\* C4: a placement that clears n lines at level L (the level before the
\* placement) adds line_score(n) * L to the score, besides the hard-drop bonus.
C4_LineScoreAtLevel ==
    trace.placed =>
        game.score = pre.score + 2 * trace.dropped
                     + line_score(Len(trace.lines)) * pre.level

\* C5: level = lines_cleared / 10 + 1 in every reachable state.
C5_LevelFormula == game.level = (game.lines_cleared \div 10) + 1

\* A line clear that took lines_cleared across a multiple of 10.
C5_Witness ==
    /\ trace.placed
    /\ Len(trace.lines) > 0
    /\ game.level = pre.level + 1

\* C6: the drop interval of the current level equals max(1, 21 - level).
C6_DropInterval == get_drop_interval(game.level) = MaxInt(1, 21 - game.level)

\* C7 (as claimed): a finished game is surfaced as GameOver: when the call
\* that ended the game returned Continue, the update call on the finished game
\* returns GameOver.  (A finished game no longer changes, so every later
\* update call returns what this one returns.)
C7_GameOverSurfaced ==
    (pre.game_over /\ game.game_over /\ last_call = "update") => action = "GameOver"

\* C7 (amended): the call that ends the game and every update call on a
\* finished game return Continue; no call returns GameOver.
C7_TerminalReturnsContinue ==
    /\ action # "GameOver"
    /\ (game.game_over /\ (~pre.game_over \/ last_call = "update")) => action = "Continue"

\* update was called on a game that was already over.
C7_Witness == pre.game_over /\ game.game_over /\ last_call = "update"

\* C8: when the piece spawn_piece creates (type next_piece, anchor (4, 0),
\* rotation 0) overlaps an occupied cell, the game is over, there is no
\* current piece and the board is the one clear_lines left.
C8_SpawnCollision ==
    (trace.placed /\ ~is_valid_position(trace.cleared, NewPiece(pre.next_piece))) =>
        /\ game.game_over
        /\ game.current_piece = NoPiece
        /\ game.board = trace.cleared

\* A placement after which the spawned piece overlaps the stack.
C8_Witness ==
    /\ trace.placed
    /\ ~pre.game_over
    /\ \E b \in get_blocks(NewPiece(pre.next_piece)) : trace.cleared[b.y][b.x] # None

\* C9: on a finished game update and every key but 'r' change no field of
\* the simulation, and game_over becomes false again only through 'r'.
C9_GameOverIsFinal ==
    /\ (pre.game_over /\ last_call # "r") => Sim(game) = Sim(pre)
    /\ (pre.game_over /\ ~game.game_over) => last_call = "r"

\* A hard-drop key pressed on a finished game.
C9_Witness == pre.game_over /\ last_call = "Space" /\ game.game_over

\* The piece a move-left, move-right or rotate command would produce.
Candidate(piece, key) ==
    CASE key = "Left" -> moved(piece, -1, 0)
      [] key = "Right" -> moved(piece, 1, 0)
      [] key = "Up" -> rotated(piece)

Rejected(key) ==
    /\ last_call = key
    /\ ~pre.game_over
    /\ pre.current_piece # NoPiece
    /\ ~is_valid_position(pre.board, Candidate(pre.current_piece[1], key))

\* C10: a move-left, move-right or rotate command whose candidate piece is
\* not valid changes no field of the simulation and returns Continue.
C10_RejectedIsNoOp ==
    \A key \in {"Left", "Right", "Up"} :
        Rejected(key) => (Sim(game) = Sim(pre) /\ action = "Continue")

\* A rotation rejected because the rotated piece overlaps the stack.
C10_Witness ==
    /\ Rejected("Up")
    /\ \E b \in get_blocks(rotated(pre.current_piece[1])) :
          b.x \in Cols /\ b.y \in Rows /\ pre.board[b.y][b.x] # None

\* The cell-by-cell statement of validity: every cell within the columns,
\* above the floor and, when on the board, on an empty cell.
CellsValid(board, p) ==
    \A b \in get_blocks(p) :
        /\ 0 <= b.x
        /\ b.x < BOARD_WIDTH
        /\ b.y < BOARD_HEIGHT
        /\ (b.y >= 0 => board[b.y][b.x] = None)

\* Pieces around p: p and its rotation, shifted by up to one column and by
\* up to two rows upwards and one downwards.
Probes(p) ==
    { moved(q, dx, dy) : q \in {p, rotated(p)}, dx \in -1..1, dy \in -2..1 }

\* C11: is_valid_position(piece) is true exactly when every cell of the piece
\* has 0 <= x < 10, y < 20 and, if y >= 0, lies on an empty board cell.
C11_ValidIffCells ==
    game.current_piece # NoPiece =>
        \A q \in Probes(game.current_piece[1]) :
            is_valid_position(game.board, q) <=> CellsValid(game.board, q)

\* Around the current piece there is a valid piece with a cell above the
\* board, and an invalid one whose cell above the board is left of column 0.
C11_Witness ==
    /\ game.current_piece # NoPiece
    /\ \E q \in Probes(game.current_piece[1]) :
          /\ is_valid_position(game.board, q)
          /\ \E b \in get_blocks(q) : b.y < 0
    /\ \E q \in Probes(game.current_piece[1]) :
          /\ ~is_valid_position(game.board, q)
          /\ \E b \in get_blocks(q) : b.y < 0 /\ b.x < 0

\* rotated() applied n times.
RECURSIVE rotated_times(_, _)
rotated_times(p, n) == IF n = 0 THEN p ELSE rotated_times(rotated(p), n - 1)

\* C12: four rotated() calls with the anchor fixed give back the rotation
\* index and the set of occupied cells.
C12_FourRotations ==
    game.current_piece # NoPiece =>
        LET p == game.current_piece[1]
            q == rotated_times(p, 4)
        IN  /\ q.rotation = p.rotation
            /\ q.position = p.position
            /\ get_blocks(q) = get_blocks(p)
            /\ rotate_times(get_rotated_shape(p), 4) = get_rotated_shape(p)

\* A piece that is not symmetric, turned three times and away from the spawn
\* anchor.
C12_Witness ==
    /\ game.current_piece # NoPiece
    /\ game.current_piece[1].rotation = 3
    /\ game.current_piece[1].piece_type = "L"
    /\ game.current_piece[1].position # [x |-> 4, y |-> 0]
    /\ get_blocks(rotated(game.current_piece[1])) # get_blocks(game.current_piece[1])

\* The current piece of g one row lower is valid.
DownValid(g) ==
    /\ ~g.game_over
    /\ g.current_piece # NoPiece
    /\ CellsValid(g.board, moved(g.current_piece[1], 0, 1))

\* The last call was an update() whose gravity step ran: only then does a
\* running update() leave drop_timer at 0.
GravityRan ==
    /\ last_call = "update"
    /\ action = "Continue"
    /\ ~pre.game_over
    /\ game.drop_timer = 0

\* anchor, type and rotation of the current piece of g.
Anchor(g) == g.current_piece[1].position

\* C19: a valid downward move lowers the anchor by exactly one row and leaves
\* the board alone; it adds 1 to the score from the soft-drop key and 0 from
\* the gravity step of update().
C19_DownMove ==
    ((last_call = "Down" \/ GravityRan) /\ DownValid(pre)) =>
        /\ game.current_piece # NoPiece
        /\ Anchor(game) = [x |-> Anchor(pre).x, y |-> Anchor(pre).y + 1]
        /\ game.current_piece[1].piece_type = pre.current_piece[1].piece_type
        /\ game.current_piece[1].rotation = pre.current_piece[1].rotation
        /\ game.board = pre.board
        /\ game.next_piece = pre.next_piece
        /\ ~trace.placed
        /\ game.score = pre.score + (IF last_call = "Down" THEN 1 ELSE 0)

\* The gravity step of update() has just lowered a piece with points on the
\* score board.
C19_Witness ==
    /\ GravityRan
    /\ DownValid(pre)
    /\ pre.score > 0
    /\ Anchor(game).y = Anchor(pre).y + 1

\* The cells, lowered by j rows, are within the columns, above the floor and
\* on empty board cells.
FreeAt(board, cells, j) ==
    \A b \in cells :
        /\ 0 <= b.x
        /\ b.x < BOARD_WIDTH
        /\ b.y + j < BOARD_HEIGHT
        /\ (b.y + j >= 0 => board[b.y + j][b.x] = None)

\* k is the largest number of rows the cells can fall: every step up to k
\* is free and step k + 1 is not.
FallRows(board, cells, k) ==
    /\ k >= 0
    /\ \A j \in 1..k : FreeAt(board, cells, j)
    /\ ~FreeAt(board, cells, k + 1)

\* The board of g with the cells of piece p set to its type.
BoardWith(g, p) ==
    LET blocks == get_blocks(p)
    IN  [y \in Rows |-> [x \in Cols |->
            IF [x |-> x, y |-> y] \in blocks THEN p.piece_type
            ELSE g.board[y][x]]]

\* What the line clear of the last placement added to the score.
LineClearScore ==
    IF Len(trace.lines) = 0 THEN 0
    ELSE line_score(Len(trace.lines)) * game.level

\* C20: a hard drop lowers the piece by the largest number k of valid rows,
\* in the same column and rotation, places it there in the same command and
\* adds 2 * k to the score on top of the line-clear score; with k = 0 it
\* places the piece where it is.
C20_HardDrop ==
    (last_call = "Space" /\ ~pre.game_over /\ pre.current_piece # NoPiece) =>
        \E cells \in {get_blocks(pre.current_piece[1])} :
         \E k \in {trace.dropped} :
          \E landed \in {moved(pre.current_piece[1], 0, k)} :
            /\ trace.placed
            /\ FallRows(pre.board, cells, k)
            /\ trace.written = BoardWith(pre, landed)
            /\ game.score = pre.score + 2 * k + LineClearScore

\* A hard drop from above the stack that cleared a line.
C20_Witness ==
    /\ last_call = "Space"
    /\ ~pre.game_over
    /\ trace.placed
    /\ trace.dropped > 0
    /\ Len(trace.lines) > 0
    /\ LineClearScore > 0

\* The calls of an iteration that reach Game::handle_key or Game::update.
GameCalls(calls) ==
    SelectSeq(calls, LAMBDA c : c \in {"handle_key", "update"})

LastCall(calls) == calls[Len(calls)]

Ending == {"Quit", "GameOver"}

\* C13: an iteration makes at most one handle_key call and at most one
\* update call, and handle_key comes first when both are made.
C13_OneKeyThenUpdate ==
    GameCalls(loop.it.calls) \in
        { << >>, <<"handle_key">>, <<"update">>, <<"handle_key", "update">> }

\* An iteration that made both calls and goes on.
C13_Witness ==
    /\ GameCalls(loop.it.calls) = <<"handle_key", "update">>
    /\ loop.status = "running"

\* C14: the loop ends with Ok exactly when handle_key or update returned
\* Quit or GameOver, and at once: that call is the last call of the loop;
\* Continue never ends it.
C14_EndsOnQuitOrGameOver ==
    LET it == loop.it IN
    /\ loop.status = "Ok" <=> (it.hk \in Ending \/ it.up \in Ending)
    /\ it.hk \in Ending =>
          /\ LastCall(it.calls) = "handle_key"
          /\ it.up = "none"
          /\ it.elapsed_at_check = -1
    /\ it.up \in Ending => LastCall(it.calls) = "update"
    /\ loop.status = "Ok" => ~ENABLED Iterate
    /\ (it.failed = "none" /\ it.hk \notin Ending /\ it.up \notin Ending) =>
          loop.status = "running"

\* handle_key returned GameOver in an iteration after the first.
C14_Witness ==
    /\ loop.it.hk = "GameOver"
    /\ loop.status = "Ok"
    /\ loop.it.prev_tick_rate # 0

\* C15: update() is called exactly when the check after the input handling
\* is made and finds elapsed >= tick_rate of this iteration, with or without
\* a handled key; last_tick is reset exactly when update() returned Continue.
C15_UpdateWhenDue ==
    LET it == loop.it
        checked == /\ it.calls # << >>
                   /\ it.failed = "none"
                   /\ it.hk \notin Ending
    IN  /\ checked <=> it.elapsed_at_check >= 0
        /\ it.up # "none" <=> (checked /\ it.elapsed_at_check >= it.tick_rate)
        /\ it.reset <=> it.up = "Continue"
        /\ it.reset => loop.elapsed = 0
        /\ (checked /\ ~it.reset) => loop.elapsed = it.elapsed_at_check

\* A key was handled, and the tick was due with elapsed equal to tick_rate.
C15_Witness ==
    /\ loop.it.hk = "Continue"
    /\ loop.it.elapsed_at_check = loop.it.tick_rate
    /\ loop.it.up = "Continue"
    /\ loop.it.reset

\* C16: the poll timeout is max(0, tick_rate - elapsed), never negative, with
\* the tick_rate the game has in this iteration.
C16_PollTimeout ==
    LET it == loop.it IN
    it.tick_rate # 0 =>
        /\ it.tick_rate = it.rate_drawn
        /\ it.timeout >= 0
        /\ it.timeout = IF it.rate_drawn - it.elapsed_at_timeout > 0
                        THEN it.rate_drawn - it.elapsed_at_timeout
                        ELSE 0

\* The tick rate differs from the one of the iteration before, and more than
\* it has already elapsed.
C16_Witness ==
    /\ loop.it.prev_tick_rate # 0
    /\ loop.it.tick_rate # loop.it.prev_tick_rate
    /\ loop.it.elapsed_at_timeout > loop.it.tick_rate
    /\ loop.it.timeout = 0

\* C17: only a key event of kind Press reaches handle_key; any other event
\* makes no call that changes the game.
C17_OnlyPress ==
    LET it == loop.it
        press == it.event.type = "Key" /\ it.event.kind = "Press"
    IN  /\ it.hk # "none" => press
        /\ (it.event # NoEvent /\ ~press) =>
              /\ "handle_key" \notin { it.calls[i] : i \in DOMAIN it.calls }
              /\ it.up = "none" => loop.rate = it.rate_drawn

\* A key repeat was read and the iteration ended without a game call.
C17_Witness ==
    /\ loop.it.event = [type |-> "Key", kind |-> "Repeat"]
    /\ GameCalls(loop.it.calls) = << >>
    /\ loop.status = "running"

\* C18: a failure of draw, poll or read ends the loop at once with that
\* error, with no handle_key or update call after it.
C18_ErrorEndsLoop ==
    LET it == loop.it IN
    /\ it.failed # "none" =>
          /\ loop.status = "Err"
          /\ loop.error = it.failed
          /\ LastCall(it.calls) = it.failed
          /\ GameCalls(it.calls) = << >>
          /\ ~ENABLED Iterate
    /\ loop.status = "Err" => it.failed # "none"

\* Reading the event failed in an iteration after the first.
C18_Witness ==
    /\ loop.it.failed = "read"
    /\ loop.status = "Err"
    /\ loop.it.prev_tick_rate # 0

CompletedRows ==
    { y \in Rows : row_full(trace.written[y]) /\ ~row_full(pre.board[y]) }

\* Row 19 is the only row of the board with a cell, and it is full.
OnlyBottomRowFull(board) ==
    /\ row_full(board[BOARD_HEIGHT - 1])
    /\ \A y \in 0..(BOARD_HEIGHT - 2) : board[y] = EmptyRow

\* C22: a placement that completes n rows adds n to lines_cleared and removes
\* n rows; completing row 19 of an otherwise empty board gives
\* lines_cleared = 1, an empty row 19 and 40 * level more score.
C22_CountIsCompletedRows ==
    trace.placed =>
        /\ game.lines_cleared = pre.lines_cleared + Cardinality(CompletedRows)
        /\ Len(trace.lines) = Cardinality(CompletedRows)
        /\ (pre.lines_cleared = 0 /\ OnlyBottomRowFull(trace.written)) =>
              /\ game.lines_cleared = 1
              /\ game.board[BOARD_HEIGHT - 1] = EmptyRow
              /\ game.score = pre.score + 2 * trace.dropped + 40 * pre.level

\* The last call restarted the game: 'r' on a finished game.
Restarted == pre.game_over /\ last_call = "r"

\* C23: between restarts no handle_key or update call lowers the level or
\* lines_cleared.
C23_NeverDecrease ==
    ~Restarted =>
        /\ game.level >= pre.level
        /\ game.lines_cleared >= pre.lines_cleared

\* A line clear late in a session that raised both.
C23_Witness ==
    /\ ~Restarted
    /\ pre.lines_cleared > 200
    /\ game.lines_cleared > pre.lines_cleared
    /\ game.level > pre.level

\* C24: game_over becomes true only in the spawn_piece of a placement, when
\* the piece it creates is not valid on the board clear_lines left.
C24_GameOverOnlyFromSpawn ==
    (~pre.game_over /\ game.game_over) =>
        /\ trace.placed
        /\ ~CellsValid(trace.cleared, NewPiece(pre.next_piece))
        /\ game.board = trace.cleared
        /\ game.current_piece = NoPiece

\* The gravity step of update() placed a piece and the game ended.
C24_Witness ==
    /\ ~pre.game_over
    /\ game.game_over
    /\ last_call = "update"
    /\ trace.placed

\* The last call was handle_key with a key the game has no arm for.
Unrecognised ==
    IF pre.game_over
    THEN last_call \in Keys \ {"r", "q"}
    ELSE last_call \in {"r", "other"}

\* C25: a key the game does not recognise returns Continue and changes no
\* field of the game.
C25_UnknownKeyIsNoOp == Unrecognised => (game = pre /\ action = "Continue")

\* The music key pressed on a finished game.
C25_Witness ==
    /\ pre.game_over
    /\ last_call = "m"
    /\ game.game_over

\* C26: 'r' on a finished game resets it: empty board, score 0,
\* lines_cleared 0, level 1, drop_timer 0, not over, a valid current piece at
\* anchor (4, 0) with rotation 0; 'r' on a running game changes nothing.
C26_RestartResets ==
    /\ Restarted =>
          /\ game.board = EmptyBoard
          /\ game.score = 0
          /\ game.lines_cleared = 0
          /\ game.level = 1
          /\ game.drop_timer = 0
          /\ ~game.game_over
          /\ game.current_piece # NoPiece
          /\ Anchor(game) = [x |-> 4, y |-> 0]
          /\ game.current_piece[1].rotation = 0
          /\ CellsValid(game.board, game.current_piece[1])
          /\ action = "Continue"
    /\ (~pre.game_over /\ last_call = "r") => (game = pre /\ action = "Continue")

\* A finished game with a stack on its board was restarted.
C26_Witness ==
    /\ Restarted
    /\ pre.board # EmptyBoard
    /\ game.board = EmptyBoard
    /\ ~game.game_over

\* The last call tried to lower the piece of a running game: the Down key,
\* or an update() that reached its gravity step.
TriedDown ==
    /\ ~pre.game_over
    /\ pre.current_piece # NoPiece
    /\ \/ last_call = "Down"
       \/ last_call = "update" /\ action = "Continue" /\ game.drop_timer = 0

CallOn(g) ==
    IF last_call = "update" THEN update(g, overflow_checks)
    ELSE IF last_call \in Keys THEN handle_key(g, last_call)
    ELSE {}

\* Every outcome the last call could have had on the game it was made on.
Outcomes == CallOn(pre)

\* The fields of the game that the draws of PieceType::random do not reach
\* in a call that does not restart the game.
Drawless(g) ==
    <<g.board, g.current_piece, g.score, g.lines_cleared, g.level, g.game_over>>

\* C28 (as claimed): the same call on the same game leaves the same board,
\* current piece, next piece, score, lines_cleared, level and game_over.
C28_InputsDetermineState ==
    ~Restarted =>
        \A r \in Outcomes :
            /\ Drawless(r.game) = Drawless(game)
            /\ r.game.next_piece = game.next_piece

\* C28 (amended): the same call on the same game leaves the same board,
\* current piece, score, lines_cleared, level and game_over, whatever
\* PieceType::random draws; the draw decides next_piece alone, and after a
\* restart the type of the current piece as well.
C28_DrawsDecideNextPieceOnly ==
    /\ ~Restarted =>
          \A r \in Outcomes :
             /\ Drawless(r.game) = Drawless(game)
             /\ r.game.next_piece = game.next_piece => Sim(r.game) = Sim(game)
    /\ Restarted =>
          Sim(game) = <<EmptyBoard,
                        Some(NewPiece(game.current_piece[1].piece_type)),
                        game.next_piece, 0, 0, 1, 0, FALSE>>

\* A placement after which another draw would have left another next_piece.
C28_Witness ==
    /\ trace.placed
    /\ ~game.game_over
    /\ \E r \in Outcomes : r.game.next_piece # game.next_piece

\* The game g with every setting of the audio flags and of music_started.
Twins(g) ==
    { [g EXCEPT !.audio = a, !.music_started = ms] :
        a \in AudioEnvs, ms \in BOOLEAN }

\* What a set of outcomes shows of the simulation and of the value returned.
Shown(outcomes) == { <<Sim(r.game), r.action>> : r \in outcomes }

\* C29: the audio flags and music_started do not reach the simulation: the
\* same call on games that differ in them alone has the same outcomes for
\* board, pieces, score, lines_cleared, level, drop_timer and game_over, and
\* the keys 'm' and 'n' change none of these.
C29_AudioDoesNotInterfere ==
    /\ ~Restarted =>
          \E shown \in {Shown(Outcomes)} :
             \A t \in Twins(pre) : Shown(CallOn(t)) = shown
    /\ last_call \in {"m", "n"} => Sim(game) = Sim(pre)

\* A four-line clear on a game that had its music switched off by 'm'.
C29_Witness ==
    /\ trace.placed
    /\ Len(trace.lines) = 4
    /\ ~pre.audio.music_enabled
    /\ ~pre.music_started

\* The occupied cells <<row, col>> (from 0) of an occupancy matrix.
CellsOf(shape) ==
    { <<i - 1, j - 1>> : <<i, j>> \in
        { c \in (1..Len(shape)) \X (1..Len(shape)) : shape[c[1]][c[2]] } }

\* Cells of an N x N matrix turned r times: (row, col) goes to (col, N-1-row).
RECURSIVE Turned(_, _, _)
Turned(cells, N, r) ==
    IF r = 0 THEN cells
    ELSE Turned({ <<c[2], N - 1 - c[1]>> : c \in cells }, N, r - 1)

\* C30: rotate_shape takes the cell (row, col) of an N x N matrix to
\* (col, N-1-row); a piece occupies the cells of its base matrix turned
\* rotation times and moved by the anchor; rotated() adds 1 modulo 4 to the
\* rotation and keeps type and anchor, so the rotation stays in 0..3.
C30_RotationGeometry ==
    game.current_piece # NoPiece =>
        LET p == game.current_piece[1]
            shape == get_rotated_shape(p)
            base == get_shape(p.piece_type)
            N == Len(base)
        IN  /\ CellsOf(rotate_shape(shape)) = Turned(CellsOf(shape), N, 1)
            /\ Len(rotate_shape(shape)) = N
            /\ get_blocks(p) =
                  { [x |-> p.position.x + c[2], y |-> p.position.y + c[1]] :
                      c \in Turned(CellsOf(base), N, p.rotation) }
            /\ rotated(p) = [piece_type |-> p.piece_type,
                             position |-> p.position,
                             rotation |-> (p.rotation + 1) % 4]
            /\ p.rotation \in 0..3

\* A J piece turned once and steered away from the spawn anchor.
C30_Witness ==
    /\ game.current_piece # NoPiece
    /\ game.current_piece[1].piece_type = "J"
    /\ game.current_piece[1].rotation = 1
    /\ game.current_piece[1].position.x < 4
    /\ game.current_piece[1].position.y > 0

\* C31: after every call the game is running exactly when it has a current
\* piece: game_over is false if and only if current_piece is present.
C31_RunningIffPiece == game.game_over <=> game.current_piece = NoPiece

\* A hard drop placed the piece and the spawn that followed ended the game.
C31_Witness ==
    /\ last_call = "Space"
    /\ pre.current_piece # NoPiece
    /\ ~pre.game_over
    /\ game.game_over
    /\ game.current_piece = NoPiece

\* Every cell of piece p is a cell of the board, and empty.
OnBoard(board, p) ==
    \A b \in get_blocks(p) :
        /\ 0 <= b.x
        /\ b.x < BOARD_WIDTH
        /\ 0 <= b.y
        /\ b.y < BOARD_HEIGHT
        /\ board[b.y][b.x] = None

\* C32: the current piece, when there is one, has every cell on the board
\* and on an empty cell; no cell of it, or of the piece a rotation or a move
\* would try, is above row 0, so is_valid_position never uses its exemption
\* for y < 0.
C32_PieceOnBoard ==
    game.current_piece # NoPiece =>
        \E p \in {game.current_piece[1]} :
            /\ OnBoard(game.board, p)
            /\ \A b \in get_blocks(rotated(p)) : b.y >= 0
            /\ \A q \in {moved(p, -1, 0), moved(p, 1, 0), moved(p, 0, 1)} :
                  q.position.y >= p.position.y

\* A piece spawned after a placement, on a board with a stack, has a cell in
\* row 0.
C32_Witness ==
    /\ trace.placed
    /\ game.current_piece # NoPiece
    /\ game.board # EmptyBoard
    /\ \E b \in get_blocks(game.current_piece[1]) : b.y = 0

\* The number of occupied cells of a board.
Occupied(board) ==
    Cardinality({ c \in Cols \X Rows : board[c[2]][c[1]] # None })

\* C33: a placement adds 4 occupied cells and every line it counts removes
\* 10; no other call but a restart changes the board.  (From the empty board
\* of a new game: occupied cells = 4 * pieces placed - 10 * lines_cleared.)
C33_CellConservation ==
    /\ trace.placed =>
          Occupied(game.board) =
              Occupied(pre.board) + 4 - 10 * (game.lines_cleared - pre.lines_cleared)
    /\ (~trace.placed /\ ~Restarted) => game.board = pre.board

\* The drop interval as stated: max(1, 21 - level) on the integers.
StatedInterval(level) == MaxInt(1, 21 - level)

\* The last call was update() on a running game.
Ticked == last_call = "update" /\ ~pre.game_over

\* The gravity step: the piece one row lower, or placed.
GravityStep ==
    \/ trace.placed
    \/ /\ game.current_piece = Some(moved(pre.current_piece[1], 0, 1))
       /\ game.board = pre.board

\* C34: update() on a running game adds one to drop_timer and, exactly when
\* the sum is at least max(1, 21 - level), makes a gravity step and sets
\* drop_timer to 0; otherwise piece and board stay as they are.  After
\* update() drop_timer is below the drop interval of the level, and the
\* soft-drop and hard-drop keys leave drop_timer alone.
C34_GravityWhenDue ==
    /\ Ticked =>
          /\ action = "Continue"
          /\ IF pre.drop_timer + 1 >= StatedInterval(pre.level)
             THEN game.drop_timer = 0 /\ GravityStep
             ELSE /\ game.drop_timer = pre.drop_timer + 1
                  /\ game.current_piece = pre.current_piece
                  /\ game.board = pre.board
                  /\ ~trace.placed
          /\ game.drop_timer < StatedInterval(game.level)
    /\ (last_call \in {"Down", "Space"} /\ ~pre.game_over) =>
          game.drop_timer = pre.drop_timer

\* The same statement for the levels where 21 - level does not overflow.
C34_UpToLevel21 == pre.level <= 21 => C34_GravityWhenDue

\* Updates a piece at most needs to be placed: a drop interval for each row.
UpdatesPerPiece == 20 * BOARD_HEIGHT

\* Every piece placed under gravity alone reaches a row further up in
\* columns 4 and 5, so at most BOARD_HEIGHT pieces are placed.
GravityBound == UpdatesPerPiece * BOARD_HEIGHT

\* What is left of the fall of the current piece, in update() calls.
Fall(g) ==
    IF g.current_piece = NoPiece THEN 0
    ELSE 20 * (BOARD_HEIGHT - g.current_piece[1].position.y) + (20 - g.drop_timer)

RECURSIVE SoftDrops(_, _)
SoftDrops(g, k) ==
    UNION { IF r.trace.placed
            THEN {[game |-> r.game, k |-> k]}
            ELSE SoftDrops(r.game, k + 1) : r \in handle_key(g, "Down") }

\* C36: a hard drop leaves the game that soft drops repeated until the piece
\* is placed leave, given the same type drawn for next_piece: same board,
\* lines_cleared, level, game_over, current piece and every other field but
\* the score, which is 2k more than before for the hard drop and k more for
\* the k soft drops that moved the piece (line score apart).
C36_HardDropIsSoftDrops ==
    (last_call = "Space" /\ ~pre.game_over) =>
        \E soft \in {SoftDrops(pre, 0)} :
            /\ \E s \in soft : s.game.next_piece = game.next_piece
            /\ \A s \in soft :
                  /\ s.k = trace.dropped
                  /\ s.game.score = pre.score + s.k + LineClearScore
                  /\ s.game.next_piece = game.next_piece =>
                        /\ [s.game EXCEPT !.score = game.score] = game
                        /\ game.score = s.game.score + s.k
            /\ game.score = pre.score + 2 * trace.dropped + LineClearScore

\* A hard drop of several rows that cleared a line and left the game running
\* with the next piece.
C36_Witness ==
    /\ last_call = "Space"
    /\ ~pre.game_over
    /\ trace.dropped > 1
    /\ Len(trace.lines) = 1
    /\ ~game.game_over
    /\ game.current_piece = Some(NewPiece(pre.next_piece))
    /\ game.score > pre.score + 2 * trace.dropped

\* How often the iteration made the call `name`.
Times(calls, name) == Len(SelectSeq(calls, LAMBDA c : c = name))

\* C37: input does not starve the tick.  An iteration reads at most one
\* event and hands at most one key to the game before its tick check; when
\* tick_rate has elapsed since last_tick by the time the timeout is computed,
\* poll does not wait and update() is called in that same iteration, with or
\* without a key handled, unless the loop ends in it; and no iteration that
\* lets the loop go on ends with tick_rate elapsed since last_tick.
C37_TickNotStarved ==
    LET it == loop.it IN
    /\ Times(it.calls, "read") <= 1
    /\ Times(it.calls, "handle_key") <= 1
    /\ Times(it.calls, "update") <= 1
    /\ (it.tick_rate # 0 /\ it.elapsed_at_timeout >= it.tick_rate) =>
          /\ it.timeout = 0
          /\ \/ it.up # "none"
             \/ it.failed # "none"
             \/ it.hk \in Ending
    /\ (it.hk = "Continue" /\ it.elapsed_at_check >= it.tick_rate) =>
          /\ it.up # "none"
          /\ LastCall(it.calls) = "update"
    /\ (loop.status = "running" /\ it.calls # << >>) =>
          loop.elapsed < it.tick_rate

\* In an iteration after the first the tick was already due before the poll,
\* a key press was there and was handled, and update() was still called.
C37_Witness ==
    /\ loop.it.prev_tick_rate # 0
    /\ loop.it.elapsed_at_timeout >= loop.it.tick_rate
    /\ loop.it.event = [type |-> "Key", kind |-> "Press"]
    /\ loop.it.hk = "Continue"
    /\ loop.it.up = "Continue"
    /\ loop.status = "running"

\* C38: a placement writes the cells of the piece, then clears the lines and
\* updates lines_cleared, level and score, then spawns: the game ends exactly
\* when the new piece is not valid on the board the line clear left, so a
\* piece placed on the spawn cells whose line clear frees them does not end
\* the game, and the line score is added also when the spawn ends the game.
C38_WriteClearSpawn ==
    trace.placed =>
        \E landed \in {moved(pre.current_piece[1], 0, trace.dropped)} :
            /\ trace.written = BoardWith(pre, landed)
            /\ trace.lines = lines_to_clear(trace.written)
            /\ trace.cleared =
                  remove_lines(trace.written, trace.lines, Len(trace.lines))
            /\ game.board = trace.cleared
            /\ game.game_over <=> ~CellsValid(trace.cleared, NewPiece(pre.next_piece))
            /\ ~game.game_over => game.current_piece = Some(NewPiece(pre.next_piece))
            /\ game.lines_cleared = pre.lines_cleared + Len(trace.lines)
            /\ game.level = level_for(game.lines_cleared)
            /\ game.score = pre.score + 2 * trace.dropped + LineClearScore

\* The piece was placed on cells the next piece needs, the line clear freed
\* them and the game went on with the next piece.
C38_Witness ==
    /\ trace.placed
    /\ Len(trace.lines) = 1
    /\ ~CellsValid(trace.written, NewPiece(pre.next_piece))
    /\ CellsValid(trace.cleared, NewPiece(pre.next_piece))
    /\ ~game.game_over
    /\ game.current_piece = Some(NewPiece(pre.next_piece))

\* The last placement of a game cleared a line and its line score was added,
\* then the spawn ended the game.
C38_FinalScoreWitness ==
    /\ trace.placed
    /\ Len(trace.lines) = 1
    /\ game.game_over
    /\ ~pre.game_over
    /\ game.score = pre.score + 2 * trace.dropped + 40 * pre.level
    /\ trace.dropped > 0

====
